---- MODULE Spec2Model ----
(***************************************************************************)
(* forest: session lifecycle manager (src/src/main.rs).                    *)
(*                                                                         *)
(* A string is a sequence of atoms.  An atom is either one character       *)
(* ("a", "/", " ") or a literal of the program text that is never looked   *)
(* into ("worktrees", "name=").  A path is a string whose separator atom   *)
(* is "/".  An argv is a sequence of strings.                              *)
(***************************************************************************)
EXTENDS Integers, Sequences, FiniteSets, TLC

VARIABLES
    inv,         \* the running invocation of the binary: command, arguments, locals, pc
    runs,        \* number of invocations started so far
    log,         \* every process spawned and filesystem mutation made, in order
    installed,   \* tools found on PATH
    configFile,  \* state of <config dir>/forest.toml
    inRepo,      \* whether the current directory is inside a git work tree
    branches,    \* local branch refs of the repository: name -> commit
    head,        \* the branch checked out in the repository's main working copy
    origin,      \* whether a remote named origin is configured
    dirs,        \* directories that exist under the worktree roots
    linked,      \* worktree paths whose .git file holds /repo/.git/worktrees/ linkage
    files,       \* descriptor files in the current directory: path -> content
    containers   \* labels of the environments the container tool has up

vars == <<inv, runs, log, installed, configFile, inRepo, branches, head, origin,
          dirs, linked, files, containers>>

---------------------------------------------------------------------------
(* Bounds *)

\* longest raw name enumerated when the sanitizer is checked on all strings
MaxLen == 3

\* invocations of the binary in one behaviour
MaxRuns == 2

---------------------------------------------------------------------------
(* Characters and strings *)

\* char::is_ascii_alphanumeric holds of these characters
AsciiAlnum == {"a", "Z", "7", "f", "c", "s", "x", "o", "r", "m", "t"}

\* the characters a raw name is drawn from when every string is enumerated:
\* alphanumerics, the three punctuation characters the grammar allows, and
\* characters outside it (a separator, a blank, a non-ASCII letter)
Alphabet == {"a", "Z", "7", "f", "c", "s", "x"} \cup {"_", ".", "-", "/", " ", "é"}

Lit(s) == <<s>>

RECURSIVE StringsOfLen(_, _)
StringsOfLen(A, n) ==
    IF n = 0 THEN {<<>>}
    ELSE {<<c>> \o s : c \in A, s \in StringsOfLen(A, n - 1)}

StringsUpTo(A, n) == UNION {StringsOfLen(A, k) : k \in 0..n}

is_ascii_alphanumeric(c) == c \in AsciiAlnum

---------------------------------------------------------------------------
(* Name sanitizer *)

\* the closure of the map in sanitize_podman_name
SanitizeChar(c) ==
    IF is_ascii_alphanumeric(c) \/ c = "_" \/ c = "." \/ c = "-" THEN c ELSE "-"

\* a sanitizer that forgets the prefix
sanitize_no_prefix(branch) ==
    [i \in 1..Len(branch) |-> SanitizeChar(branch[i])]

\* a sanitizer that prefixes every name
sanitize_always_prefix(branch) ==
    <<"s">> \o [i \in 1..Len(branch) |-> SanitizeChar(branch[i])]

sanitize_podman_name(branch) ==
    LET name == [i \in 1..Len(branch) |-> SanitizeChar(branch[i])]
        \* name.chars().next().map(|c| !c.is_ascii_alphanumeric()).unwrap_or(true)
        needPrefix == IF name = <<>> THEN TRUE ELSE ~is_ascii_alphanumeric(name[1])
    IN  IF needPrefix THEN <<"s">> \o name ELSE name

\* chars.all(...) over the rest of the iterator
RECURSIVE AllNameChars(_)
AllNameChars(s) ==
    IF s = <<>> THEN TRUE
    ELSE /\ (is_ascii_alphanumeric(Head(s)) \/ Head(s) = "_" \/ Head(s) = "."
                \/ Head(s) = "-")
         /\ AllNameChars(Tail(s))

\* a validator that forgets the first-character rule
valid_any_first(name) == name # <<>> /\ AllNameChars(name)

valid_podman_name(name) ==
    IF name = <<>> THEN FALSE
    ELSE IF ~is_ascii_alphanumeric(Head(name)) THEN FALSE
    ELSE AllNameChars(Tail(name))

---------------------------------------------------------------------------
(* Paths *)

\* Path::join: an absolute argument replaces the base; otherwise the argument
\* is pushed after a separator (none is added when the base already ends in one)
PathJoin(base, s) ==
    IF s # <<>> /\ Head(s) = "/" THEN s
    ELSE IF base = <<>> THEN s
    ELSE IF base[Len(base)] = "/" THEN base \o s
    ELSE base \o <<"/">> \o s

RECURSIVE StripTrailingSep(_)
StripTrailingSep(p) ==
    IF p # <<>> /\ p[Len(p)] = "/" THEN StripTrailingSep(SubSeq(p, 1, Len(p) - 1))
    ELSE p

RECURSIVE LastComponent(_)
LastComponent(p) ==
    IF p = <<>> THEN <<>>
    ELSE IF p[Len(p)] = "/" THEN <<>>
    ELSE LastComponent(SubSeq(p, 1, Len(p) - 1)) \o <<p[Len(p)]>>

\* Path::file_name: the final component; <<>> stands for None (the empty
\* path, the root, a path ending in ..)
FileName(p) ==
    LET c == LastComponent(StripTrailingSep(p))
    IN  IF c = <<".", ".">> THEN <<>> ELSE c

\* whether path p is d or an ancestor directory of d
IsPathPrefix(p, d) ==
    /\ Len(p) <= Len(d)
    /\ SubSeq(d, 1, Len(p)) = p
    /\ \/ Len(p) = Len(d)
       \/ d[Len(p) + 1] = "/"
       \/ (p # <<>> /\ p[Len(p)] = "/")

\* Path::exists on the directories created by create_dir_all
DirExists(p, ds) == \E d \in ds : IsPathPrefix(p, d)

---------------------------------------------------------------------------
(* The environment the binary runs in *)

Tools == {"devcontainer", "git", "gh"}

\* what git rev-parse --show-toplevel prints inside the repository
RepoRoot == <<"/", "src", "/", "proj">>

\* the value of $HOME
Home == <<"/", "home">>

MainBranch == <<"main">>

\* the commit HEAD of the main working copy points at, and an older one
HeadCommit == "c1"
OldCommit == "c0"

\* githuborg of a parseable forest.toml that sets it
Org == <<"org">>

ConfigStates == {"nodir", "missing", "unparseable", "noorg", "org"}

---------------------------------------------------------------------------
(* Devcontainer descriptors *)

RootDescriptor == <<".devcontainer.json">>

DevcontainerDir == <<".devcontainer">>

DefaultDescriptor == PathJoin(DevcontainerDir, <<"devcontainer.json">>)

EnvDescriptor(env) ==
    PathJoin(PathJoin(DevcontainerDir, env), <<"devcontainer.json">>)

DefaultImage == "docker.io/library/ubuntu:latest"

\* what the scaffold writes: {"image": "docker.io/library/ubuntu:latest"}
ScaffoldContent == [json |-> TRUE, image |-> DefaultImage, build |-> "none"]

\* descriptor contents a repository may hold
ImageContent == [json |-> TRUE, image |-> "custom", build |-> "none"]
BuildContent == [json |-> TRUE, image |-> "none", build |-> "dockerfile"]
BuildNoDockerfileContent == [json |-> TRUE, image |-> "none", build |-> "nodockerfile"]
ImageAndBuildContent == [json |-> TRUE, image |-> "custom", build |-> "dockerfile"]
EmptyObjectContent == [json |-> TRUE, image |-> "none", build |-> "none"]
NotJsonContent == [json |-> FALSE, image |-> "none", build |-> "none"]

\* dev_env is an Option<&str>: <<>> is None, <<e>> is Some(e)
None == <<>>
Some(x) == <<x>>

FsEvent(op, path) == [run |-> 0, kind |-> "fs", argv |-> <<Lit(op), path>>, status |-> "ok"]

\* a resolver that scaffolds instead of failing on a missing environment
find_devcontainer_env_fallback(dev_env, fs) ==
    IF dev_env # None /\ EnvDescriptor(dev_env[1]) \in DOMAIN fs
    THEN [ok |-> TRUE, path |-> EnvDescriptor(dev_env[1]), err |-> "", fs |-> fs,
          events |-> <<>>]
    ELSE IF RootDescriptor \in DOMAIN fs
    THEN [ok |-> TRUE, path |-> RootDescriptor, err |-> "", fs |-> fs, events |-> <<>>]
    ELSE IF DefaultDescriptor \in DOMAIN fs
    THEN [ok |-> TRUE, path |-> DefaultDescriptor, err |-> "", fs |-> fs, events |-> <<>>]
    ELSE [ok |-> TRUE, path |-> DefaultDescriptor, err |-> "",
          fs |-> (DefaultDescriptor :> ScaffoldContent) @@ fs,
          events |-> <<FsEvent("create_dir_all", DevcontainerDir),
                       FsEvent("write", DefaultDescriptor)>>]

\* a resolver that writes the scaffold without looking for an existing default
find_devcontainer_overwrite(dev_env, fs) ==
    IF dev_env # None
    THEN IF EnvDescriptor(dev_env[1]) \in DOMAIN fs
         THEN [ok |-> TRUE, path |-> EnvDescriptor(dev_env[1]), err |-> "", fs |-> fs,
               events |-> <<>>]
         ELSE [ok |-> FALSE, path |-> <<>>, err |-> "devcontainer not found", fs |-> fs,
               events |-> <<>>]
    ELSE IF RootDescriptor \in DOMAIN fs
    THEN [ok |-> TRUE, path |-> RootDescriptor, err |-> "", fs |-> fs, events |-> <<>>]
    ELSE [ok |-> TRUE, path |-> DefaultDescriptor, err |-> "",
          fs |-> (DefaultDescriptor :> ScaffoldContent) @@ fs,
          events |-> <<FsEvent("create_dir_all", DevcontainerDir),
                       FsEvent("write", DefaultDescriptor)>>]

\* a resolver that looks in .devcontainer before it looks at the root
find_devcontainer_default_first(dev_env, fs) ==
    IF dev_env # None
    THEN IF EnvDescriptor(dev_env[1]) \in DOMAIN fs
         THEN [ok |-> TRUE, path |-> EnvDescriptor(dev_env[1]), err |-> "", fs |-> fs,
               events |-> <<>>]
         ELSE [ok |-> FALSE, path |-> <<>>, err |-> "devcontainer not found", fs |-> fs,
               events |-> <<>>]
    ELSE IF DefaultDescriptor \in DOMAIN fs
    THEN [ok |-> TRUE, path |-> DefaultDescriptor, err |-> "", fs |-> fs, events |-> <<>>]
    ELSE IF RootDescriptor \in DOMAIN fs
    THEN [ok |-> TRUE, path |-> RootDescriptor, err |-> "", fs |-> fs, events |-> <<>>]
    ELSE [ok |-> TRUE, path |-> DefaultDescriptor, err |-> "",
          fs |-> (DefaultDescriptor :> ScaffoldContent) @@ fs,
          events |-> <<FsEvent("create_dir_all", DevcontainerDir),
                       FsEvent("write", DefaultDescriptor)>>]

\* find_devcontainer: the resolved path or the error, the filesystem after
\* the call and the mutations made
find_devcontainer(dev_env, fs) ==
    IF dev_env # None
    THEN LET candidate == EnvDescriptor(dev_env[1])
         IN  IF candidate \in DOMAIN fs
             THEN [ok |-> TRUE, path |-> candidate, err |-> "", fs |-> fs,
                   events |-> <<>>]
             ELSE [ok |-> FALSE, path |-> <<>>, err |-> "devcontainer not found",
                   fs |-> fs, events |-> <<>>]
    ELSE IF RootDescriptor \in DOMAIN fs
    THEN [ok |-> TRUE, path |-> RootDescriptor, err |-> "", fs |-> fs, events |-> <<>>]
    ELSE IF DefaultDescriptor \in DOMAIN fs
    THEN [ok |-> TRUE, path |-> DefaultDescriptor, err |-> "", fs |-> fs, events |-> <<>>]
    ELSE [ok |-> TRUE, path |-> DefaultDescriptor, err |-> "",
          fs |-> (DefaultDescriptor :> ScaffoldContent) @@ fs,
          events |-> <<FsEvent("create_dir_all", DevcontainerDir),
                       FsEvent("write", DefaultDescriptor)>>]

---------------------------------------------------------------------------
(* Invocations of the binary *)

Procs == {1, 2}

Idle ==
    [cmd |-> "none", name |-> <<>>, dev_env |-> None, pc |-> "idle", run |-> 0,
     githuborg |-> None, repo_root |-> <<>>, podman_name |-> <<>>,
     worktree_path |-> <<>>, devcontainer_path |-> <<>>, errors |-> <<>>,
     result |-> "", message |-> <<>>]

Spawn(r, argv, status) == [run |-> r, kind |-> "spawn", argv |-> argv, status |-> status]

Exit(r, result) == [run |-> r, kind |-> "exit", argv |-> <<>>, status |-> result]

\* the events of a callee, stamped with the invocation that made them
Stamp(r, events) ==
    [i \in 1..Len(events) |-> [events[i] EXCEPT !.run = r]]

\* how a spawn of the tool ends: io::ErrorKind::NotFound when it is not on
\* PATH, otherwise one of the exit statuses the tool can give here
Statuses(tool, outcomes) == IF tool \in installed THEN outcomes ELSE {"notfound"}

NotFoundMsg == "devcontainer command not found. Please install @devcontainers/cli"

\* the map_err closure at every devcontainer call site
DevcontainerErr(status) == IF status = "notfound" THEN NotFoundMsg ELSE "io error"

\* load_config: githuborg of a readable, parseable forest.toml; the default
\* Config in every other case
load_config == IF configFile = "org" THEN Some(Org) ELSE None

\* the command line after the subcommand and the name
dev_env_argv(env) == IF env = None THEN <<>> ELSE <<Lit("--devcontainer-env"), env[1]>>

FirstPc(cmd) ==
    CASE cmd = "open" -> "git_root"
      [] cmd = "kill" -> "kill_sanitize"
      [] cmd = "ls" -> "list"
      [] cmd = "precheck" -> "check_devcontainer"

\* main: parse the command line, load the configuration, dispatch
Start(p, cmd, name, env) ==
    /\ inv[p].pc \in {"idle", "done"}
    /\ runs < MaxRuns
    /\ runs' = runs + 1
    /\ inv' = [inv EXCEPT ![p] =
                 [Idle EXCEPT !.cmd = cmd, !.name = name, !.dev_env = env,
                              !.run = runs + 1, !.githuborg = load_config,
                              !.pc = FirstPc(cmd)]]
    /\ log' = Append(log, [run |-> runs + 1, kind |-> "start",
                           argv |-> <<Lit(cmd), name>> \o dev_env_argv(env),
                           status |-> ""])
    /\ UNCHANGED <<installed, configFile, inRepo, branches, head, origin, dirs,
                   linked, files, containers>>

\* the invocation goes on to pc next
Goto(p, events, next) ==
    /\ inv' = [inv EXCEPT ![p].pc = next]
    /\ log' = log \o events

\* the invocation returns: Ok(()) as "ok", an error as its message
Return(p, events, result) ==
    /\ inv' = [inv EXCEPT ![p].pc = "done", ![p].result = result]
    /\ log' = log \o events \o <<Exit(inv[p].run, result)>>

---------------------------------------------------------------------------
(* git, as ensure_git_setup and open_session use it *)

\* git check-ref-format on refs/heads/<name>, over the alphabet: no leading
\* dash, no empty component, no component starting with a dot, no "..",
\* no blank, no trailing dot
GitBranchNameOk(name) ==
    /\ name # <<>>
    /\ name[1] \notin {"/", ".", "-"}
    /\ name[Len(name)] \notin {"/", "."}
    /\ \A i \in 1..Len(name) : name[i] # " "
    /\ \A i \in 1..(Len(name) - 1) :
          /\ ~(name[i] = "/" /\ name[i + 1] \in {"/", "."})
          /\ ~(name[i] = "." /\ name[i + 1] = ".")

\* git takes a name with a leading dash for an option of the subcommand
GitOptionLike(name) == name # <<>> /\ name[1] = "-"

\* ensure_git_setup: git rev-parse --show-toplevel; any failure, the missing
\* executable included, returns Ok(()) and skips the git steps
EnsureGitRoot(p) ==
    /\ inv[p].pc = "git_root"
    /\ \E st \in Statuses("git", IF inRepo THEN {"ok"} ELSE {"fail"}) :
          LET ev == <<Spawn(inv[p].run,
                            <<Lit("git"), Lit("rev-parse"), Lit("--show-toplevel")>>, st)>>
          IN  Goto(p, ev, IF st = "ok" THEN "show_ref" ELSE "sanitize")
    /\ UNCHANGED <<runs, installed, configFile, inRepo, branches, head, origin, dirs,
                   linked, files, containers>>

\* ensure_git_setup: git show-ref --verify refs/heads/<branch>; branch_exists
\* is the success of the command, false when it could not be run
EnsureShowRef(p) ==
    /\ inv[p].pc = "show_ref"
    /\ \E st \in Statuses("git", IF inv[p].name \in DOMAIN branches
                                    THEN {"ok"} ELSE {"fail"}) :
          LET ev == <<Spawn(inv[p].run,
                            <<Lit("git"), Lit("show-ref"), Lit("--verify"),
                              Lit("refs/heads/") \o inv[p].name>>, st)>>
          IN  Goto(p, ev, IF st = "ok" THEN "remote" ELSE "git_branch")
    /\ UNCHANGED <<runs, installed, configFile, inRepo, branches, head, origin, dirs,
                   linked, files, containers>>

\* the exit statuses git branch <name> can give: it creates the branch at
\* HEAD when the name is a valid ref name not yet taken, and may fail for
\* its own reasons (a lock, a ref-directory conflict); an option-like name
\* runs that option
GitBranchOutcomes(name) ==
    IF GitOptionLike(name) THEN {"ok", "fail"}
    ELSE IF GitBranchNameOk(name) /\ name \notin DOMAIN branches THEN {"ok", "fail"}
    ELSE {"fail"}

\* a step that makes the branch with git checkout -b, which also switches to it
HeadAfterGitBranch_checkout(h, name) == name

\* a branch step that takes a failed git branch for a branch that is there
EnsureGitBranch_ignore_failure(p) ==
    /\ inv[p].pc = "git_branch"
    /\ \E st \in Statuses("git", GitBranchOutcomes(inv[p].name)) :
          LET ev == <<Spawn(inv[p].run, <<Lit("git"), Lit("branch"), inv[p].name>>, st)>>
          IN  /\ branches' = IF st = "ok" /\ ~GitOptionLike(inv[p].name)
                             THEN (inv[p].name :> branches[head]) @@ branches
                             ELSE branches
              /\ head' = head
              /\ CASE st = "ok" -> Goto(p, ev, "remote")
                   [] st = "fail" -> Goto(p, ev, "remote")
                   [] st = "notfound" -> Return(p, ev, "io error")
    /\ UNCHANGED <<runs, installed, configFile, inRepo, origin, dirs, linked,
                   files, containers>>

\* git branch <name> makes the ref and leaves HEAD of the working copy alone
HeadAfterGitBranch(h, name) == h

\* ensure_git_setup: git branch <branch>
EnsureGitBranch(p) ==
    /\ inv[p].pc = "git_branch"
    /\ \E st \in Statuses("git", GitBranchOutcomes(inv[p].name)) :
          LET ev == <<Spawn(inv[p].run, <<Lit("git"), Lit("branch"), inv[p].name>>, st)>>
          IN  /\ branches' = IF st = "ok" /\ ~GitOptionLike(inv[p].name)
                             THEN (inv[p].name :> branches[head]) @@ branches
                             ELSE branches
              /\ head' = IF st = "ok" /\ ~GitOptionLike(inv[p].name)
                         THEN HeadAfterGitBranch(head, inv[p].name)
                         ELSE head
              /\ CASE st = "ok" -> Goto(p, ev, "remote")
                   [] st = "fail" -> Return(p, ev, "git branch failed")
                   [] st = "notfound" -> Return(p, ev, "io error")
    /\ UNCHANGED <<runs, installed, configFile, inRepo, origin, dirs, linked,
                   files, containers>>

\* a remote step that provisions whenever an organisation is configured,
\* whatever git remote get-url said
EnsureRemote_always(p) ==
    /\ inv[p].pc = "remote"
    /\ \E st \in Statuses("git", IF origin THEN {"ok"} ELSE {"fail"}) :
          LET ev == <<Spawn(inv[p].run,
                            <<Lit("git"), Lit("remote"), Lit("get-url"), Lit("origin")>>,
                            st)>>
          IN  Goto(p, ev, IF inv[p].githuborg # None THEN "gh_create" ELSE "sanitize")
    /\ UNCHANGED <<runs, installed, configFile, inRepo, branches, head, origin, dirs,
                   linked, files, containers>>

\* ensure_git_setup: git remote get-url origin
EnsureRemote(p) ==
    /\ inv[p].pc = "remote"
    /\ \E st \in Statuses("git", IF origin THEN {"ok"} ELSE {"fail"}) :
          LET ev == <<Spawn(inv[p].run,
                            <<Lit("git"), Lit("remote"), Lit("get-url"), Lit("origin")>>,
                            st)>>
          IN  Goto(p, ev, IF st # "ok" /\ inv[p].githuborg # None
                          THEN "gh_create" ELSE "sanitize")
    /\ UNCHANGED <<runs, installed, configFile, inRepo, branches, head, origin, dirs,
                   linked, files, containers>>

\* ensure_git_setup: gh repo create <org>/<repo name> --source <root>
\* --remote origin --push
EnsureGhCreate(p) ==
    /\ inv[p].pc = "gh_create"
    /\ \E st \in Statuses("gh", {"ok", "fail"}) :
          LET ev == <<Spawn(inv[p].run,
                            <<Lit("gh"), Lit("repo"), Lit("create"),
                              inv[p].githuborg[1] \o Lit("/") \o FileName(RepoRoot),
                              Lit("--source"), RepoRoot, Lit("--remote"), Lit("origin"),
                              Lit("--push")>>, st)>>
          IN  /\ origin' = (origin \/ st = "ok")
              /\ CASE st = "ok" -> Goto(p, ev, "sanitize")
                   [] st = "fail" -> Return(p, ev, "gh repo create failed")
                   [] st = "notfound" -> Return(p, ev, "io error")
    /\ UNCHANGED <<runs, installed, configFile, inRepo, branches, head, dirs, linked,
                   files, containers>>

---------------------------------------------------------------------------
(* open *)

WorktreeRoot(repo_name) == PathJoin(PathJoin(Home, Lit("worktrees")), repo_name)

\* worktree_root.join(name)
WorktreePath(repo_name, name) == PathJoin(WorktreeRoot(repo_name), name)

\* open_session: sanitize the name and re-check it
OpenSanitize(p) ==
    /\ inv[p].pc = "sanitize"
    /\ LET podman_name == sanitize_podman_name(inv[p].name)
       IN  IF ~valid_podman_name(podman_name)
           THEN /\ inv' = [inv EXCEPT ![p].pc = "done",
                                      ![p].podman_name = podman_name,
                                      ![p].result = "invalid session name"]
                /\ log' = log \o <<Exit(inv[p].run, "invalid session name")>>
           ELSE /\ inv' = [inv EXCEPT ![p].pc = "repo_root",
                                      ![p].podman_name = podman_name]
                /\ log' = log
    /\ UNCHANGED <<runs, installed, configFile, inRepo, branches, head, origin, dirs,
                   linked, files, containers>>

\* open_session: git rev-parse --show-toplevel once more; only a spawn error
\* is propagated, the exit status is not looked at and the repository root is
\* whatever was printed (nothing outside a repository); then the repository
\* name and the worktree path
OpenRepoRoot(p) ==
    /\ inv[p].pc = "repo_root"
    /\ \E st \in Statuses("git", IF inRepo THEN {"ok"} ELSE {"fail"}) :
          LET ev == <<Spawn(inv[p].run,
                            <<Lit("git"), Lit("rev-parse"), Lit("--show-toplevel")>>, st)>>
              repo_root == IF st = "ok" THEN RepoRoot ELSE <<>>
              repo_name == FileName(repo_root)
          IN  IF st = "notfound" THEN Return(p, ev, "io error")
              ELSE IF repo_name = <<>>
              THEN Return(p, ev, "failed to determine repo name")
              ELSE /\ inv' = [inv EXCEPT ![p].pc = "mkdir",
                                         ![p].repo_root = repo_root,
                                         ![p].worktree_path =
                                             WorktreePath(repo_name, inv[p].name)]
                   /\ log' = log \o ev
    /\ UNCHANGED <<runs, installed, configFile, inRepo, branches, head, origin, dirs,
                   linked, files, containers>>

\* open_session: create the worktree directory unless the path exists
OpenMkdir(p) ==
    /\ inv[p].pc = "mkdir"
    /\ IF DirExists(inv[p].worktree_path, dirs)
       THEN Goto(p, <<>>, "find") /\ dirs' = dirs
       ELSE \E st \in {"ok", "fail"} :
              LET ev == <<[run |-> inv[p].run, kind |-> "fs",
                           argv |-> <<Lit("create_dir_all"), inv[p].worktree_path>>,
                           status |-> st]>>
              IN  /\ dirs' = IF st = "ok" THEN dirs \cup {inv[p].worktree_path} ELSE dirs
                  /\ IF st = "ok" THEN Goto(p, ev, "find")
                     ELSE Return(p, ev, "io error")
    /\ UNCHANGED <<runs, installed, configFile, inRepo, branches, head, origin, linked,
                   files, containers>>

\* open_session: resolve the descriptor
OpenFind(p) ==
    /\ inv[p].pc = "find"
    /\ LET r == find_devcontainer(inv[p].dev_env, files)
       IN  /\ files' = r.fs
           /\ IF r.ok
              THEN /\ inv' = [inv EXCEPT ![p].pc = "parse",
                                         ![p].devcontainer_path = r.path]
                   /\ log' = log \o Stamp(inv[p].run, r.events)
              ELSE Return(p, Stamp(inv[p].run, r.events), r.err)
    /\ UNCHANGED <<runs, installed, configFile, inRepo, branches, head, origin, dirs,
                   linked, containers>>

\* a parse step that does not look for the two fields
OpenParse_no_check(p) ==
    /\ inv[p].pc = "parse"
    /\ LET value == files[inv[p].devcontainer_path]
       IN  IF ~value.json THEN Return(p, <<>>, "json error")
           ELSE Goto(p, <<>>, IF value.build # "none" THEN "build" ELSE "up")
    /\ UNCHANGED <<runs, installed, configFile, inRepo, branches, head, origin, dirs,
                   linked, files, containers>>

\* open_session: read and parse the descriptor, then look for image and build
OpenParse(p) ==
    /\ inv[p].pc = "parse"
    /\ LET value == files[inv[p].devcontainer_path]
       IN  IF ~value.json THEN Return(p, <<>>, "json error")
           ELSE IF value.image = "none" /\ value.build = "none"
           THEN Return(p, <<>>, "image field missing in devcontainer")
           ELSE Goto(p, <<>>, IF value.build # "none" THEN "build" ELSE "up")
    /\ UNCHANGED <<runs, installed, configFile, inRepo, branches, head, origin, dirs,
                   linked, files, containers>>

\* a build step that goes on to the create operation when the build fails
OpenBuild_continue(p) ==
    /\ inv[p].pc = "build"
    /\ \E st \in Statuses("devcontainer", {"ok", "fail"}) :
          LET ev == <<Spawn(inv[p].run,
                            <<Lit("devcontainer"), Lit("build"), Lit("--workspace-folder"),
                              inv[p].worktree_path>>, st)>>
          IN  CASE st = "ok" -> Goto(p, ev, "up")
                [] st = "fail" -> Goto(p, ev, "up")
                [] st = "notfound" -> Return(p, ev, DevcontainerErr(st))
    /\ UNCHANGED <<runs, installed, configFile, inRepo, branches, head, origin, dirs,
                   linked, files, containers>>

\* open_session: devcontainer build --workspace-folder <worktree>
OpenBuild(p) ==
    /\ inv[p].pc = "build"
    /\ \E st \in Statuses("devcontainer", {"ok", "fail"}) :
          LET ev == <<Spawn(inv[p].run,
                            <<Lit("devcontainer"), Lit("build"), Lit("--workspace-folder"),
                              inv[p].worktree_path>>, st)>>
          IN  CASE st = "ok" -> Goto(p, ev, "up")
                [] st = "fail" -> Return(p, ev, "devcontainer build failed")
                [] st = "notfound" -> Return(p, ev, DevcontainerErr(st))
    /\ UNCHANGED <<runs, installed, configFile, inRepo, branches, head, origin, dirs,
                   linked, files, containers>>

\* a create operation that also mounts the directory holding every worktree
\* and labels the environment with the last path segment
UpArgv_mount_parent(worktree_path, podman_name, repo_root) ==
    <<Lit("devcontainer"), Lit("up"),
      Lit("--workspace-folder"), worktree_path,
      Lit("--id-label"), Lit("name=") \o FileName(worktree_path),
      Lit("--mount"), Lit("type=bind,source=") \o repo_root \o Lit(",target=/repo"),
      Lit("--mount"), Lit("type=bind,source=") \o worktree_path \o Lit(",target=/code"),
      Lit("--mount"), Lit("type=bind,source=") \o PathJoin(Home, Lit("worktrees"))
                          \o Lit(",target=/worktrees")>>

\* the argv of the create operation
UpArgv(worktree_path, podman_name, repo_root) ==
    <<Lit("devcontainer"), Lit("up"),
      Lit("--workspace-folder"), worktree_path,
      Lit("--id-label"), Lit("name=") \o podman_name,
      Lit("--mount"), Lit("type=bind,source=") \o repo_root \o Lit(",target=/repo"),
      Lit("--mount"), Lit("type=bind,source=") \o worktree_path \o Lit(",target=/code")>>

\* open_session: devcontainer up; the tool brings the environment up under
\* the label, or leaves things as they are when it fails
OpenUp(p) ==
    /\ inv[p].pc = "up"
    /\ \E st \in Statuses("devcontainer", {"ok", "fail"}) :
          LET ev == <<Spawn(inv[p].run,
                            UpArgv(inv[p].worktree_path, inv[p].podman_name,
                                   inv[p].repo_root), st)>>
          IN  /\ containers' = IF st = "ok" THEN containers \cup {inv[p].podman_name}
                               ELSE containers
              /\ CASE st = "ok" -> Goto(p, ev, "worktree")
                   [] st = "fail" -> Return(p, ev, "devcontainer up failed")
                   [] st = "notfound" -> Return(p, ev, DevcontainerErr(st))
    /\ UNCHANGED <<runs, installed, configFile, inRepo, branches, head, origin, dirs,
                   linked, files>>

ExecArgv(worktree_path, podman_name, script) ==
    <<Lit("devcontainer"), Lit("exec"),
      Lit("--workspace-folder"), worktree_path,
      Lit("--id-label"), Lit("name=") \o podman_name,
      Lit("bash"), Lit("-lc"), script>>

\* the exit statuses of git worktree add -B <name> /code: git refuses a name
\* that is no ref name and a branch that is checked out in the main working
\* copy or in another worktree, and may fail for its own reasons
WorktreeAddOutcomes(name) ==
    IF /\ GitBranchNameOk(name)
       /\ name # head
       /\ \A w \in DOMAIN linked : linked[w] # name
    THEN {"ok", "fail"}
    ELSE {"fail"}

\* a registration step that does not look at <worktree>/.git
OpenWorktree_always(p) ==
    /\ inv[p].pc = "worktree"
    /\ \E st \in Statuses("devcontainer", WorktreeAddOutcomes(inv[p].name)) :
          LET ev == <<Spawn(inv[p].run,
                            ExecArgv(inv[p].worktree_path, inv[p].podman_name,
                                     Lit("git -C /repo worktree add -B ")
                                         \o inv[p].name \o Lit(" /code")), st)>>
          IN  /\ linked' = IF st = "ok"
                           THEN (inv[p].worktree_path :> inv[p].name) @@ linked
                           ELSE linked
              /\ branches' = IF st = "ok"
                             THEN (inv[p].name :> branches[head]) @@ branches
                             ELSE branches
              /\ CASE st = "ok" -> Goto(p, ev, "attach")
                   [] st = "fail" -> Return(p, ev, "git worktree add failed")
                   [] st = "notfound" -> Return(p, ev, DevcontainerErr(st))
    /\ UNCHANGED <<runs, installed, configFile, inRepo, head, origin, dirs, files,
                   containers>>

\* open_session: unless <worktree>/.git already holds /repo/.git/worktrees/
\* linkage, run git -C /repo worktree add -B <name> /code in the environment;
\* git then checks the directory out on the branch, which -B creates at, or
\* resets to, the commit of HEAD
OpenWorktree(p) ==
    /\ inv[p].pc = "worktree"
    /\ IF inv[p].worktree_path \in DOMAIN linked
       THEN Goto(p, <<>>, "attach") /\ UNCHANGED <<branches, linked>>
       ELSE \E st \in Statuses("devcontainer", WorktreeAddOutcomes(inv[p].name)) :
              LET ev == <<Spawn(inv[p].run,
                                ExecArgv(inv[p].worktree_path, inv[p].podman_name,
                                         Lit("git -C /repo worktree add -B ")
                                             \o inv[p].name \o Lit(" /code")), st)>>
              IN  /\ linked' = IF st = "ok"
                               THEN (inv[p].worktree_path :> inv[p].name) @@ linked
                               ELSE linked
                  /\ branches' = IF st = "ok"
                                 THEN (inv[p].name :> branches[head]) @@ branches
                                 ELSE branches
                  /\ CASE st = "ok" -> Goto(p, ev, "attach")
                       [] st = "fail" -> Return(p, ev, "git worktree add failed")
                       [] st = "notfound" -> Return(p, ev, DevcontainerErr(st))
    /\ UNCHANGED <<runs, installed, configFile, inRepo, head, origin, dirs, files,
                   containers>>

\* an attach that tears the environment down again when the shell fails
OpenAttach_teardown(p) ==
    /\ inv[p].pc = "attach"
    /\ \E st \in Statuses("devcontainer", {"ok", "fail"}) :
          LET ev == <<Spawn(inv[p].run,
                            ExecArgv(inv[p].worktree_path, inv[p].podman_name,
                                     Lit("cd /code && exec bash")), st)>>
          IN  /\ containers' = IF st = "fail" THEN containers \ {inv[p].podman_name}
                               ELSE containers
              /\ CASE st = "ok" -> Return(p, ev, "ok")
                   [] st = "fail" -> Return(p, ev, "devcontainer exec failed")
                   [] st = "notfound" -> Return(p, ev, DevcontainerErr(st))
    /\ UNCHANGED <<runs, installed, configFile, inRepo, branches, head, origin, dirs,
                   linked, files>>

\* open_session: the interactive shell, devcontainer exec ... cd /code && exec bash
OpenAttach(p) ==
    /\ inv[p].pc = "attach"
    /\ \E st \in Statuses("devcontainer", {"ok", "fail"}) :
          LET ev == <<Spawn(inv[p].run,
                            ExecArgv(inv[p].worktree_path, inv[p].podman_name,
                                     Lit("cd /code && exec bash")), st)>>
          IN  CASE st = "ok" -> Return(p, ev, "ok")
                [] st = "fail" -> Return(p, ev, "devcontainer exec failed")
                [] st = "notfound" -> Return(p, ev, DevcontainerErr(st))
    /\ UNCHANGED <<runs, installed, configFile, inRepo, branches, head, origin, dirs,
                   linked, files, containers>>

---------------------------------------------------------------------------
(* kill and ls *)

\* kill_session: sanitize the name and re-check it
KillSanitize(p) ==
    /\ inv[p].pc = "kill_sanitize"
    /\ LET podman_name == sanitize_podman_name(inv[p].name)
       IN  IF ~valid_podman_name(podman_name)
           THEN /\ inv' = [inv EXCEPT ![p].pc = "done",
                                      ![p].podman_name = podman_name,
                                      ![p].result = "invalid session name"]
                /\ log' = log \o <<Exit(inv[p].run, "invalid session name")>>
           ELSE /\ inv' = [inv EXCEPT ![p].pc = "down",
                                      ![p].podman_name = podman_name]
                /\ log' = log
    /\ UNCHANGED <<runs, installed, configFile, inRepo, branches, head, origin, dirs,
                   linked, files, containers>>

\* kill_session: what the exit status of devcontainer down is turned into
KillResult(st) ==
    CASE st = "ok" -> "ok"
      [] st = "fail" -> "devcontainer down failed"
      [] st = "notfound" -> NotFoundMsg

\* a teardown that labels with the raw name
KillDown_raw_label(p) ==
    /\ inv[p].pc = "down"
    /\ \E st \in Statuses("devcontainer", {"ok", "fail"}) :
          LET ev == <<Spawn(inv[p].run,
                            <<Lit("devcontainer"), Lit("down"), Lit("--id-label"),
                              Lit("name=") \o inv[p].name>>, st)>>
          IN  /\ containers' = IF st = "ok" THEN containers \ {inv[p].name}
                               ELSE containers
              /\ Return(p, ev, KillResult(st))
    /\ UNCHANGED <<runs, installed, configFile, inRepo, branches, head, origin, dirs,
                   linked, files>>

\* kill_session: devcontainer down --id-label name=<podman_name>; the tool
\* removes the environment under the label when it succeeds, and answers a
\* label it does not know with exit 0 or with a non-zero status
KillDown(p) ==
    /\ inv[p].pc = "down"
    /\ \E st \in Statuses("devcontainer", {"ok", "fail"}) :
          LET ev == <<Spawn(inv[p].run,
                            <<Lit("devcontainer"), Lit("down"), Lit("--id-label"),
                              Lit("name=") \o inv[p].podman_name>>, st)>>
          IN  /\ containers' = IF st = "ok" THEN containers \ {inv[p].podman_name}
                               ELSE containers
              /\ Return(p, ev, KillResult(st))
    /\ UNCHANGED <<runs, installed, configFile, inRepo, branches, head, origin, dirs,
                   linked, files>>

\* list_sessions: devcontainer list; only a spawn error is an error, the
\* exit status is dropped
ListSessions(p) ==
    /\ inv[p].pc = "list"
    /\ \E st \in Statuses("devcontainer", {"ok", "fail"}) :
          LET ev == <<Spawn(inv[p].run, <<Lit("devcontainer"), Lit("list")>>, st)>>
          IN  Return(p, ev, IF st = "notfound" THEN NotFoundMsg ELSE "ok")
    /\ UNCHANGED <<runs, installed, configFile, inRepo, branches, head, origin, dirs,
                   linked, files, containers>>

---------------------------------------------------------------------------
(* precheck *)

\* the commands precheck looks for, in the order of its loop
PrecheckCommands == <<"devcontainer", "git", "gh">>

PrecheckPc(i) ==
    IF i <= Len(PrecheckCommands) THEN "check_" \o PrecheckCommands[i]
    ELSE "check_config"

\* a precheck that gives up the loop at the first missing command
AfterCommand_fail_fast(i, found) ==
    IF found THEN PrecheckPc(i + 1) ELSE "report"

\* the loop of precheck goes on to the next command whatever was found
AfterCommand(i, found) == PrecheckPc(i + 1)

\* precheck: command_exists(cmd), the success of cmd --version, and the
\* error pushed when it is false
PrecheckCommand(p, i) ==
    /\ inv[p].pc = PrecheckPc(i)
    /\ i <= Len(PrecheckCommands)
    /\ \E st \in Statuses(PrecheckCommands[i], {"ok"}) :
          LET cmd == PrecheckCommands[i]
              ev == <<Spawn(inv[p].run, <<Lit(cmd), Lit("--version")>>, st)>>
              errors == IF st = "ok" THEN inv[p].errors
                        ELSE Append(inv[p].errors, cmd \o " command not found")
          IN  /\ inv' = [inv EXCEPT ![p].pc = AfterCommand(i, st = "ok"),
                                    ![p].errors = errors]
              /\ log' = log \o ev
    /\ UNCHANGED <<runs, installed, configFile, inRepo, branches, head, origin, dirs,
                   linked, files, containers>>

\* the error precheck pushes for the state of the configuration file, if any
ConfigErrors ==
    CASE configFile = "nodir" -> <<"could not determine configuration directory">>
      [] configFile = "missing" -> <<"config file not found">>
      [] configFile = "unparseable" -> <<"failed to parse forest.toml">>
      [] OTHER -> <<>>

\* precheck: read and parse the configuration file
PrecheckConfig(p) ==
    /\ inv[p].pc = "check_config"
    /\ inv' = [inv EXCEPT ![p].pc = "report",
                          ![p].errors = inv[p].errors \o ConfigErrors]
    /\ UNCHANGED <<runs, log, installed, configFile, inRepo, branches, head, origin,
                   dirs, linked, files, containers>>

\* precheck: Ok(()) when nothing was pushed, else one error listing them all
PrecheckReport(p) ==
    /\ inv[p].pc = "report"
    /\ LET result == IF inv[p].errors = <<>> THEN "ok" ELSE "precheck failed"
       IN  /\ inv' = [inv EXCEPT ![p].pc = "done", ![p].result = result,
                                 ![p].message = inv[p].errors]
           /\ log' = log \o <<Exit(inv[p].run, result)>>
    /\ UNCHANGED <<runs, installed, configFile, inRepo, branches, head, origin, dirs,
                   linked, files, containers>>

---------------------------------------------------------------------------
(* Specifications *)

\* the steps of ensure_git_setup up to the remote check
EnsureSteps(p) ==
    \/ EnsureGitRoot(p)
    \/ EnsureShowRef(p)
    \/ EnsureGitBranch(p)
    \/ EnsureRemote(p)

\* the steps of open_session after ensure_git_setup, the build aside
OpenSteps(p) ==
    \/ OpenSanitize(p)
    \/ OpenRepoRoot(p)
    \/ OpenMkdir(p)
    \/ OpenFind(p)
    \/ OpenParse(p)
    \/ OpenUp(p)
    \/ OpenWorktree(p)
    \/ OpenAttach(p)

KillSteps(p) == KillSanitize(p) \/ KillDown(p)

\* the steps of a running invocation of open, kill or ls
Step(p) ==
    \/ EnsureSteps(p)
    \/ EnsureGhCreate(p)
    \/ OpenSteps(p)
    \/ OpenBuild(p)
    \/ KillSteps(p)
    \/ ListSessions(p)

PrecheckStep(p) ==
    \/ \E i \in 1..Len(PrecheckCommands) : PrecheckCommand(p, i)
    \/ PrecheckConfig(p)
    \/ PrecheckReport(p)

\* nothing has run yet: no worktree directory, no environment
InitQuiet ==
    /\ inv = [p \in Procs |-> Idle]
    /\ runs = 0
    /\ log = <<>>
    /\ head = MainBranch
    /\ dirs = {}
    /\ linked = <<>>
    /\ containers = {}

OnlyMain == MainBranch :> HeadCommit

\* the raw names of the lifecycle specification: a plain name, a nested
\* branch name, and a name that differs from it only in the separator
RawNames == {<<"x">>, <<"f", "/", "c">>, <<"f", "-", "c">>}

\* the environment names given with --devcontainer-env
EnvNames == {<<"a">>, <<"x">>}

\* Lifecycle: up to MaxRuns invocations of open, kill and ls, one after the
\* other, in a repository with every tool installed.
Init ==
    /\ InitQuiet
    /\ installed = Tools
    /\ configFile \in {"noorg", "org"}
    /\ inRepo = TRUE
    /\ branches \in {OnlyMain, (<<"x">> :> OldCommit) @@ OnlyMain}
    /\ origin \in BOOLEAN
    /\ files \in {<<>>, DefaultDescriptor :> BuildContent}

StartOpen == \E n \in RawNames : Start(1, "open", n, None)

StartKill == \E n \in RawNames : Start(1, "kill", n, None)

StartLs == Start(1, "ls", <<>>, None)

Next ==
    \/ StartOpen
    \/ StartKill
    \/ StartLs
    \/ Step(1)

Spec == Init /\ [][Next]_vars

\* Names: one invocation of open or kill for every string over the alphabet
\* up to MaxLen, in a repository with every tool installed.
\* a worktree of the repository made by hand before, on a branch of its own
OtherWorktree == PathJoin(RepoRoot, Lit("otherwt"))

InitNames ==
    /\ inv = [p \in Procs |-> Idle]
    /\ runs = 0
    /\ log = <<>>
    /\ head = MainBranch
    /\ dirs = {OtherWorktree}
    /\ linked = (OtherWorktree :> <<"other">>)
    /\ containers = {}
    /\ installed = Tools
    /\ configFile = "noorg"
    /\ inRepo = TRUE
    /\ branches = (<<"other">> :> HeadCommit) @@ OnlyMain
    /\ origin = TRUE
    /\ files = <<>>

StartNamed ==
    /\ runs = 0
    /\ \E n \in StringsUpTo(Alphabet, MaxLen) : \E cmd \in {"open", "kill"} :
          Start(1, cmd, n, None)

NextNames == StartNamed \/ EnsureSteps(1) \/ OpenSteps(1) \/ KillSteps(1)

SpecNames == InitNames /\ [][NextNames]_vars

\* a name git branch takes for its --format option: it lists the branches
\* and creates none
FormatName ==
    <<"-", "-", "f", "o", "r", "m", "a", "t", "=", "x", "/", ".", ".", "/", ".", ".">>

\* raw names that are plain, nested, absolute (the repository root among
\* them), empty, or hold .. segments
PathNames ==
    {<<"x">>, <<"f", "/", "c">>, <<"/", "x">>, RepoRoot, <<>>, <<".", ".">>,
     <<"a", "/", ".", ".">>, <<".", ".", "/", "a">>, FormatName}

\* Paths: one invocation of open for every name of PathNames, inside and
\* outside a repository, with and without git.
InitPaths ==
    /\ InitQuiet
    /\ installed \in {Tools, Tools \ {"git"}}
    /\ configFile = "noorg"
    /\ inRepo \in BOOLEAN
    /\ branches \in {OnlyMain, (<<"x">> :> OldCommit) @@ OnlyMain}
    /\ origin = TRUE
    /\ files \in {<<>>, RootDescriptor :> ImageContent}

StartPath == runs = 0 /\ \E n \in PathNames : Start(1, "open", n, None)

NextPaths == StartPath \/ EnsureSteps(1) \/ OpenSteps(1)

SpecPaths == InitPaths /\ [][NextPaths]_vars

\* Race: two invocations of open for the same name, each started once, their
\* steps interleaved in every order, in a repository without the branch.
InitRace ==
    /\ InitQuiet
    /\ installed = Tools
    /\ configFile = "noorg"
    /\ inRepo = TRUE
    /\ branches = OnlyMain
    /\ origin = TRUE
    /\ files = (RootDescriptor :> ImageContent)

StartRace == \E p \in Procs : inv[p].pc = "idle" /\ Start(p, "open", <<"x">>, None)

NextRace == StartRace \/ \E p \in Procs : EnsureSteps(p) \/ OpenSteps(p)

SpecRace == InitRace /\ [][NextRace]_vars

\* descriptor layouts of the current directory
DescriptorContents ==
    {ImageContent, BuildContent, BuildNoDockerfileContent, ImageAndBuildContent,
     EmptyObjectContent, NotJsonContent}

FileSystems ==
    {<<>>}
    \cup {RootDescriptor :> c : c \in DescriptorContents}
    \cup {DefaultDescriptor :> c : c \in DescriptorContents}
    \cup {EnvDescriptor(<<"x">>) :> c : c \in {ImageContent, BuildContent}}
    \cup {(RootDescriptor :> ImageContent) @@ (DefaultDescriptor :> BuildContent),
          (RootDescriptor :> BuildContent) @@ (DefaultDescriptor :> ImageContent)
              @@ (EnvDescriptor(<<"x">>) :> ImageContent)}

\* Environments: one invocation of any command, in every environment: tools
\* present or missing, every state of the configuration file, inside and
\* outside a repository, every descriptor layout.
InitEnv ==
    /\ InitQuiet
    /\ installed \in SUBSET Tools
    /\ configFile \in ConfigStates
    /\ inRepo \in BOOLEAN
    /\ branches \in {OnlyMain, (<<"x">> :> OldCommit) @@ OnlyMain}
    /\ origin \in BOOLEAN
    /\ ~inRepo => (branches = OnlyMain /\ origin = FALSE)
    /\ files \in FileSystems

StartAny ==
    /\ runs = 0
    /\ \/ \E n \in {<<"x">>, <<"f", "/", "c">>} :
             \E e \in {None} \cup {Some(x) : x \in EnvNames} : Start(1, "open", n, e)
       \/ \E n \in {<<"x">>, <<"f", "/", "c">>} : Start(1, "kill", n, None)
       \/ Start(1, "ls", <<>>, None)
       \/ Start(1, "precheck", <<>>, None)

NextEnv == StartAny \/ Step(1) \/ PrecheckStep(1)

SpecEnv == InitEnv /\ [][NextEnv]_vars

\* Resolution: up to MaxRuns invocations of open for one name, with and
\* without --devcontainer-env, over every descriptor layout.
InitResolve ==
    /\ InitQuiet
    /\ installed = Tools
    /\ configFile = "noorg"
    /\ inRepo = TRUE
    /\ branches = OnlyMain
    /\ origin = TRUE
    /\ files \in FileSystems

StartResolve ==
    \E e \in {None} \cup {Some(x) : x \in EnvNames} : Start(1, "open", <<"x">>, e)

NextResolve == StartResolve \/ EnsureSteps(1) \/ OpenSteps(1) \/ OpenBuild(1)

SpecResolve == InitResolve /\ [][NextResolve]_vars

---------------------------------------------------------------------------
(* Claims *)

\* the identifier grammar, stated on its own: non-empty, first character an
\* ASCII alphanumeric, every character an ASCII alphanumeric, _, . or -
Conforms(id) ==
    /\ Len(id) >= 1
    /\ id[1] \in AsciiAlnum
    /\ \A i \in 1..Len(id) : id[i] \in AsciiAlnum \cup {"_", ".", "-"}

\* the invocation has computed its podman_name
Sanitized(p) ==
    inv[p].cmd \in {"open", "kill"} /\ inv[p].podman_name # <<>>

\* C4: for every raw name the sanitized name is accepted by the validator,
\* and no invocation of open or kill ends with the invalid-session-name error.
C4_SanitizedNameIsValid ==
    \A p \in Procs :
        /\ inv[p].result # "invalid session name"
        /\ inv[p].cmd \in {"open", "kill"} =>
               valid_podman_name(sanitize_podman_name(inv[p].name))
        /\ Sanitized(p) => Conforms(inv[p].podman_name)

\* a name made only of characters that need care (leading _, a separator)
\* went through the sanitizer and on to the teardown
C4_Witness ==
    /\ inv[1].cmd = "kill" /\ inv[1].pc = "down"
    /\ inv[1].name = <<"_", "/">>
    /\ inv[1].podman_name = <<"s", "_", "-">>

\* C5: a name that conforms to the grammar is returned unchanged by the
\* sanitizer, and sanitizing a sanitized name changes nothing.
C5_SanitizeIdentityAndIdempotent ==
    \A p \in Procs :
        Sanitized(p) =>
            /\ Conforms(inv[p].name) => inv[p].podman_name = inv[p].name
            /\ sanitize_podman_name(inv[p].podman_name) = inv[p].podman_name

\* a conforming name with punctuation came out of the sanitizer as it went in
C5_Witness ==
    /\ Sanitized(1)
    /\ inv[1].name = <<"a", ".", "-">>
    /\ inv[1].podman_name = <<"a", ".", "-">>

\* C6: the validator accepts a string exactly when it conforms to the
\* grammar; it rejects the empty string and every string whose first
\* character is not an ASCII alphanumeric.
C6_ValidatorIsTheGrammar ==
    \A p \in Procs :
        inv[p].cmd \in {"open", "kill"} =>
            /\ valid_podman_name(inv[p].name) <=> Conforms(inv[p].name)
            /\ valid_podman_name(inv[p].podman_name) <=> Conforms(inv[p].podman_name)
            /\ (inv[p].name = <<>> \/ inv[p].name[1] \notin AsciiAlnum)
                   => ~valid_podman_name(inv[p].name)

\* the validator was run in an invocation whose raw name it rejects for its
\* first character alone
C6_Witness ==
    /\ Sanitized(1)
    /\ inv[1].name = <<"_", "a">>
    /\ ~valid_podman_name(inv[1].name)
    /\ valid_podman_name(inv[1].podman_name)

\* the spawns of the create operation recorded in the log
UpSpawns ==
    {i \in DOMAIN log :
        /\ log[i].kind = "spawn"
        /\ log[i].argv[1] = Lit("devcontainer")
        /\ log[i].argv[2] = Lit("up")}

\* the raw name of the invocation that made log entry i
NameOfRun(r) ==
    LET starts == {j \in DOMAIN log : log[j].kind = "start" /\ log[j].run = r}
    IN  log[CHOOSE j \in starts : TRUE].argv[2]

\* the arguments that follow a --mount flag
MountArgs(argv) ==
    {argv[k + 1] : k \in {k \in 1..(Len(argv) - 1) : argv[k] = Lit("--mount")}}

BindSource(path) == <<"type=bind,source=">> \o path

\* whether string s starts with prefix
StartsWith(s, prefix) ==
    Len(s) >= Len(prefix) /\ SubSeq(s, 1, Len(prefix)) = prefix

\* C7: every create operation issued by open uses the workspace path
\* <home>/worktrees/<repo name>/<raw name>, the label name=<sanitized name>,
\* and exactly two bind mounts: the repository root and that worktree path
\* (open f/c: a path ending in f/c, the label f-c), never another worktree.
C7_UpUsesWorktreeLabelAndTwoMounts ==
    \A i \in UpSpawns :
        LET argv == log[i].argv
            name == NameOfRun(log[i].run)
            path == Home \o <<"/", "worktrees", "/", "proj", "/">> \o name
        IN  /\ argv[3] = Lit("--workspace-folder") /\ argv[4] = path
            /\ argv[5] = Lit("--id-label")
            /\ argv[6] = <<"name=">> \o sanitize_podman_name(name)
            /\ Conforms(SubSeq(argv[6], 2, Len(argv[6])))
            /\ name = <<"f", "/", "c">> => argv[6] = <<"name=", "f", "-", "c">>
            /\ Cardinality({k \in DOMAIN argv : argv[k] = Lit("--mount")}) = 2
            /\ MountArgs(argv) = {BindSource(RepoRoot) \o <<",target=/repo">>,
                                  BindSource(path) \o <<",target=/code">>}
            /\ \A m \in MountArgs(argv) : ~StartsWith(m, BindSource(OtherWorktree))

\* open f/c issued its create operation while another worktree of the
\* repository existed
C7_Witness ==
    /\ \E i \in UpSpawns : NameOfRun(log[i].run) = <<"f", "/", "c">>
    /\ OtherWorktree \in DOMAIN linked

\* the filesystem mutations of descriptor resolution recorded in the log
DescriptorWrites ==
    {i \in DOMAIN log : log[i].kind = "fs" /\ log[i].argv[1] = Lit("write")}

DevcontainerDirCreations ==
    {i \in DOMAIN log :
        /\ log[i].kind = "fs"
        /\ log[i].argv = <<Lit("create_dir_all"), DevcontainerDir>>}

\* open has resolved its descriptor
Resolved(p) ==
    /\ inv[p].cmd = "open"
    /\ inv[p].devcontainer_path # <<>>

\* the descriptors of the current directory that are not the scaffold
OwnDescriptors ==
    {f \in DOMAIN files : files[f] # ScaffoldContent}

\* C8: with no descriptor anywhere in the chain, resolution without an
\* environment name creates the one file .devcontainer/devcontainer.json,
\* holding an image field with the default base image, and returns its path;
\* resolving again returns the same path and writes nothing.
C8_ScaffoldOnceThenNoOp ==
    /\ Cardinality(DescriptorWrites) <= 1
    /\ Cardinality(DevcontainerDirCreations) <= 1
    /\ \A i \in DescriptorWrites :
          /\ log[i].argv[2] = <<".devcontainer", "/", "devcontainer.json">>
          /\ files[log[i].argv[2]].json
          /\ files[log[i].argv[2]].image = "docker.io/library/ubuntu:latest"
          /\ OwnDescriptors \cap {RootDescriptor, DefaultDescriptor} = {}
    /\ \A p \in Procs :
          (Resolved(p) /\ inv[p].dev_env = None
              /\ OwnDescriptors \cap {RootDescriptor, DefaultDescriptor} = {}) =>
                 /\ inv[p].devcontainer_path = <<".devcontainer", "/", "devcontainer.json">>
                 /\ DOMAIN files = OwnDescriptors \cup {inv[p].devcontainer_path}
                 /\ Cardinality(DescriptorWrites) = 1

\* the second open resolved the scaffold the first one wrote, and the log
\* holds the one write of the first
C8_Witness ==
    /\ Resolved(1) /\ inv[1].run = 2 /\ inv[1].dev_env = None
    /\ inv[1].devcontainer_path = DefaultDescriptor
    /\ files = (DefaultDescriptor :> ScaffoldContent)
    /\ \E i \in DescriptorWrites : log[i].run = 1

\* the spawns of the container tool made by run r
DevcontainerSpawns(r) ==
    {i \in DOMAIN log :
        log[i].kind = "spawn" /\ log[i].run = r /\ log[i].argv[1] = Lit("devcontainer")}

\* open was given an environment name whose descriptor does not exist
MissingEnv(p) ==
    /\ inv[p].cmd = "open"
    /\ inv[p].dev_env # None
    /\ <<".devcontainer", "/">> \o inv[p].dev_env[1] \o <<"/", "devcontainer.json">>
           \notin DOMAIN files

\* the errors open can return before it resolves the descriptor
ErrorsBeforeResolution ==
    {"git branch failed", "gh repo create failed", "io error",
     "failed to determine repo name", "invalid session name"}

\* C9: with an environment name whose descriptor does not exist, resolution
\* fails with the not-found error, writes nothing, does not scaffold and does
\* not fall back to another descriptor, whether or not one exists.
C9_MissingEnvFailsWithoutMutation ==
    \A p \in Procs :
        MissingEnv(p) =>
            /\ ~Resolved(p)
            /\ inv[p].pc \in {"parse", "build", "up", "worktree", "attach"} => FALSE
            /\ inv[p].pc = "done" =>
                   inv[p].result \in ErrorsBeforeResolution \cup {"devcontainer not found"}
            /\ DevcontainerSpawns(inv[p].run) = {}
            /\ \A i \in DescriptorWrites \cup DevcontainerDirCreations :
                   log[i].run # inv[p].run
            /\ ScaffoldContent \in {files[f] : f \in DOMAIN files} =>
                   \E i \in DescriptorWrites : log[i].run < inv[p].run

\* open --devcontainer-env a failed with the not-found error while both
\* .devcontainer.json and .devcontainer/devcontainer.json existed
C9_Witness ==
    /\ MissingEnv(1) /\ inv[1].dev_env = Some(<<"a">>)
    /\ inv[1].pc = "done" /\ inv[1].result = "devcontainer not found"
    /\ {RootDescriptor, DefaultDescriptor} \subseteq DOMAIN files

\* the checks of precheck that fail in the current environment, each by the
\* line the error must hold for it
FailedChecks ==
    {t \o " command not found" : t \in {"devcontainer", "git", "gh"} \ installed}
    \cup (IF configFile = "missing" THEN {"config file not found"} ELSE {})
    \cup (IF configFile = "unparseable" THEN {"failed to parse forest.toml"} ELSE {})
    \cup (IF configFile = "nodir"
          THEN {"could not determine configuration directory"} ELSE {})

\* the commands run r probed with --version
Probed(r) ==
    {log[i].argv[1] : i \in {j \in DOMAIN log :
        /\ log[j].kind = "spawn" /\ log[j].run = r
        /\ Len(log[j].argv) = 2 /\ log[j].argv[2] = Lit("--version")}}

Range(seq) == {seq[i] : i \in DOMAIN seq}

\* C10: precheck runs every check whatever the earlier ones found, returns
\* one error that names every failed check, and returns success exactly
\* when no check failed.
C10_PrecheckReportsEveryFailure ==
    \A p \in Procs :
        (inv[p].cmd = "precheck" /\ inv[p].pc = "done") =>
            /\ Probed(inv[p].run) = {Lit("devcontainer"), Lit("git"), Lit("gh")}
            /\ Range(inv[p].message) = FailedChecks
            /\ Len(inv[p].message) = Cardinality(FailedChecks)
            /\ inv[p].result = "ok" <=> FailedChecks = {}
            /\ inv[p].result # "ok" => inv[p].result = "precheck failed"
            /\ Cardinality({i \in DOMAIN log :
                   log[i].kind = "exit" /\ log[i].run = inv[p].run}) = 1

\* precheck failed naming two missing commands and the missing configuration
\* file (the environment of precheck_collects_multiple_errors)
C10_Witness ==
    /\ inv[1].cmd = "precheck" /\ inv[1].pc = "done"
    /\ installed = {"git"} /\ configFile = "missing"
    /\ inv[1].result = "precheck failed"
    /\ inv[1].message = <<"devcontainer command not found", "gh command not found",
                          "config file not found">>

\* the log entry that starts run r, and the one that ends it
StartOf(r) == {i \in DOMAIN log : log[i].kind = "start" /\ log[i].run = r}

ExitOf(r) == {i \in DOMAIN log : log[i].kind = "exit" /\ log[i].run = r}

\* runs 1 and 2 are both open <n>, and run 1 returned Ok
OpenedTwice(n) ==
    /\ \E i \in StartOf(1) : log[i].argv = <<Lit("open"), n>>
    /\ \E i \in StartOf(2) : log[i].argv = <<Lit("open"), n>>
    /\ \E i \in ExitOf(1) : log[i].status = "ok"

\* the successful spawns of git branch <n>
BranchCreations(n) ==
    {i \in DOMAIN log :
        /\ log[i].kind = "spawn" /\ log[i].status = "ok"
        /\ log[i].argv = <<Lit("git"), Lit("branch"), n>>}

\* the successful creations of a directory whose path ends in <n>
WorktreeDirCreations(n) ==
    {i \in DOMAIN log :
        /\ log[i].kind = "fs" /\ log[i].status = "ok"
        /\ log[i].argv[1] = Lit("create_dir_all")
        /\ log[i].argv[2] = WorktreePath(FileName(RepoRoot), n)}

\* C1: open <n> twice in succession, the first run succeeding, makes one
\* branch creation and one worktree directory creation in all, and the
\* second run finds the session already there: it issues no build and no
\* create operation, only the interactive attach.
C1_SecondOpenSkipsCreate ==
    \A n \in RawNames :
        OpenedTwice(n) =>
            /\ Cardinality(BranchCreations(n)) <= 1
            /\ Cardinality(WorktreeDirCreations(n)) = 1
            /\ \A i \in DevcontainerSpawns(2) :
                   /\ log[i].argv[2] = Lit("exec")
                   /\ log[i].argv[Len(log[i].argv)] = Lit("cd /code && exec bash")

\* What does hold of two opens in succession: one branch creation at most and
\* one directory creation over the two runs, none of them by the second run.
SecondOpenCreatesNoBranchOrDirectory ==
    \A n \in RawNames :
        OpenedTwice(n) =>
            /\ Cardinality(BranchCreations(n)) <= 1
            /\ Cardinality(WorktreeDirCreations(n)) = 1
            /\ \A i \in BranchCreations(n) \cup WorktreeDirCreations(n) : log[i].run = 1
            /\ \A i \in DevcontainerSpawns(2) : log[i].argv[2] \in {Lit("build"), Lit("up"),
                                                                    Lit("exec")}

\* the successful create operations under the label of invocation p
UpsUnderLabel(p) ==
    {i \in UpSpawns :
        log[i].status = "ok" /\ log[i].argv[6] = <<"name=">> \o inv[p].podman_name}

\* C2: kill <name> returns success when no session exists under the name
\* and the container tool is installed, whatever exit status the tool gives
\* for having nothing to tear down.
C2_KillOfMissingSessionSucceeds ==
    \A p \in Procs :
        (/\ inv[p].cmd = "kill" /\ inv[p].pc = "done"
         /\ "devcontainer" \in installed
         /\ UpsUnderLabel(p) = {}) => inv[p].result = "ok"

\* C3: outside a repository open skips the git steps without an error and
\* goes on to resolve the descriptor and bring the session up; not being in
\* a repository is never what makes it fail.
C3_OpenOutsideRepositoryProceeds ==
    \A p \in Procs :
        (inv[p].cmd = "open" /\ ~inRepo /\ installed = Tools) =>
            /\ \A i \in DOMAIN log :
                   (log[i].kind = "spawn" /\ log[i].run = inv[p].run) =>
                       log[i].argv[2] \notin {Lit("show-ref"), Lit("branch"), Lit("remote")}
            /\ inv[p].result \notin ErrorsBeforeResolution

\* run r found no ref refs/heads/<name> when it looked
BranchWasAbsent(r) ==
    \E i \in DOMAIN log :
        /\ log[i].kind = "spawn" /\ log[i].run = r
        /\ log[i].argv[2] = Lit("show-ref") /\ log[i].status = "fail"

\* open returned Ok
OpenSucceeded(p) ==
    inv[p].cmd = "open" /\ inv[p].pc = "done" /\ inv[p].result = "ok"

\* C11: after a successful open <name> in a repository that had no branch
\* <name>, the branch exists, the session's working directory is checked out on
\* it, and the main working copy is still on the branch it was on before.
C11_OpenChecksOutBranchInWorktreeOnly ==
    /\ head = MainBranch
    /\ \A p \in Procs :
          (OpenSucceeded(p) /\ BranchWasAbsent(inv[p].run)) =>
              /\ inv[p].name \in DOMAIN branches
              /\ inv[p].worktree_path \in DOMAIN linked
              /\ linked[inv[p].worktree_path] = inv[p].name
              /\ inv[p].worktree_path # RepoRoot
              /\ inv[p].name # head

\* open f/c succeeded in a repository whose only branch was main
C11_Witness ==
    /\ OpenSucceeded(1) /\ BranchWasAbsent(inv[1].run)
    /\ inv[1].name = <<"f", "/", "c">>
    /\ \E i \in BranchCreations(inv[1].name) : log[i].run = inv[1].run
    /\ DOMAIN branches = {MainBranch, <<"f", "/", "c">>}

\* the components of a path, split at the separator
RECURSIVE Components(_)
Components(path) ==
    IF path = <<>> THEN <<>>
    ELSE LET k == IF \E i \in DOMAIN path : path[i] = "/"
                  THEN CHOOSE i \in DOMAIN path :
                           path[i] = "/" /\ \A j \in 1..(i - 1) : path[j] # "/"
                  ELSE Len(path) + 1
         IN  <<SubSeq(path, 1, k - 1)>>
                 \o (IF k >= Len(path) THEN <<>>
                     ELSE Components(SubSeq(path, k + 1, Len(path))))

\* the directory the components lead to: an empty component and . stay, ..
\* goes up
RECURSIVE Walk(_, _)
Walk(at, comps) ==
    IF comps = <<>> THEN at
    ELSE IF Head(comps) \in {<<>>, <<".">>} THEN Walk(at, Tail(comps))
    ELSE IF Head(comps) = <<".", ".">>
    THEN Walk(IF at = <<>> THEN at ELSE SubSeq(at, 1, Len(at) - 1), Tail(comps))
    ELSE Walk(Append(at, Head(comps)), Tail(comps))

\* the directories from the root down to the one an absolute path names
Resolve(path) == Walk(<<>>, Components(path))

\* path names a directory strictly below the directory root names
StrictlyBelow(path, root) ==
    /\ Len(Resolve(path)) > Len(Resolve(root))
    /\ SubSeq(Resolve(path), 1, Len(Resolve(root))) = Resolve(root)

\* open has computed the worktree path of its name
PathComputed(p) == inv[p].cmd = "open" /\ inv[p].worktree_path # <<>>

\* C12: for every raw name open accepts, absolute names and names with ..
\* segments included, the worktree path lies strictly below
\* <home>/worktrees/<repo name> and is not the repository root.
C12_WorktreePathBelowWorktreeRoot ==
    \A p \in Procs :
        PathComputed(p) =>
            /\ StrictlyBelow(inv[p].worktree_path,
                             Home \o <<"/", "worktrees", "/", "proj">>)
            /\ Resolve(inv[p].worktree_path) # Resolve(RepoRoot)

\* the command of run r
CmdOfRun(r) ==
    LET starts == {j \in DOMAIN log : log[j].kind = "start" /\ log[j].run = r}
    IN  log[CHOOSE j \in starts : TRUE].argv[1]

\* the spawns by open, kill and ls of a tool that could not be found
NotFoundSpawns ==
    {i \in DOMAIN log :
        /\ log[i].kind = "spawn" /\ log[i].status = "notfound"
        /\ CmdOfRun(log[i].run) \in {Lit("open"), Lit("kill"), Lit("ls")}}

\* the results that report a tool that ran and failed, or success
RanResults ==
    {"ok", "git branch failed", "gh repo create failed", "devcontainer build failed",
     "devcontainer up failed", "git worktree add failed", "devcontainer exec failed",
     "devcontainer down failed"}

\* C13: whenever open, kill or ls invokes a tool whose executable cannot be
\* found, the invocation reports that, as a condition of its own: it does not
\* go on as if the tool had run and answered (not in a repository, branch
\* absent, remote absent), and does not report a failed run of the tool.
C13_MissingToolIsReported ==
    \A i \in NotFoundSpawns :
        /\ i < Len(log)
        /\ log[i + 1].kind = "exit"
        /\ log[i + 1].run = log[i].run
        /\ log[i + 1].status \notin RanResults

\* the log entries of run r that succeeded
Succeeded(r) ==
    {i \in DOMAIN log : log[i].run = r /\ log[i].status = "ok"}

\* the commands and filesystem calls that take something away
Undoing(e) ==
    \/ e.kind = "fs" /\ e.argv[1] \notin {Lit("create_dir_all"), Lit("write")}
    \/ e.kind = "spawn" /\ e.argv[1] = Lit("devcontainer")
           /\ e.argv[2] \notin {Lit("build"), Lit("up"), Lit("exec")}
    \/ e.kind = "spawn" /\ e.argv[1] = Lit("git") /\ e.argv[2] = Lit("branch")
           /\ Len(e.argv) # 3
    \/ e.kind = "spawn" /\ e.argv[1] = Lit("git")
           /\ e.argv[2] \notin {Lit("rev-parse"), Lit("show-ref"), Lit("branch"),
                                 Lit("remote")}

\* C14: whatever open has completed stays when a later step fails, the
\* interactive attach included (exec failed): the branch it created, the
\* directory it created and the environment it brought up remain, and open
\* issues no branch deletion, no directory removal and no teardown.
C14_OpenNeverUndoes ==
    \A p \in Procs :
        inv[p].cmd = "open" =>
            \A i \in DOMAIN log :
                log[i].run = inv[p].run =>
                    /\ ~Undoing(log[i])
                    /\ (i \in Succeeded(inv[p].run) /\ log[i].kind = "spawn"
                           /\ log[i].argv = <<Lit("git"), Lit("branch"), inv[p].name>>)
                          => inv[p].name \in DOMAIN branches
                    /\ (i \in Succeeded(inv[p].run) /\ log[i].kind = "fs"
                           /\ log[i].argv[1] = Lit("create_dir_all")
                           /\ log[i].argv[2] # DevcontainerDir)
                          => log[i].argv[2] \in dirs
                    /\ (i \in Succeeded(inv[p].run) /\ log[i].kind = "fs"
                           /\ log[i].argv[1] = Lit("write"))
                          => log[i].argv[2] \in DOMAIN files
                    /\ (i \in Succeeded(inv[p].run) /\ i \in UpSpawns)
                          => SubSeq(log[i].argv[6], 2, Len(log[i].argv[6])) \in containers

\* open x created the branch, the directory and the environment, and then
\* returned exec failed
C14_Witness ==
    /\ inv[1].cmd = "open" /\ inv[1].pc = "done"
    /\ inv[1].result = "devcontainer exec failed"
    /\ \E i \in BranchCreations(inv[1].name) : log[i].run = inv[1].run
    /\ \E i \in WorktreeDirCreations(inv[1].name) : log[i].run = inv[1].run
    /\ \E i \in UpSpawns : log[i].run = inv[1].run /\ log[i].status = "ok"
    /\ inv[1].name \in DOMAIN branches
    /\ inv[1].worktree_path \in dirs
    /\ inv[1].podman_name \in containers

\* the steps of open whose failure is an error: git branch, gh repo create,
\* the creation of a directory, and every command given to the container tool
FatalStep(e) ==
    \/ e.kind = "fs"
    \/ e.kind = "spawn" /\ e.argv[1] = Lit("git") /\ e.argv[2] = Lit("branch")
    \/ e.kind = "spawn" /\ e.argv[1] = Lit("gh")
    \/ e.kind = "spawn" /\ e.argv[1] = Lit("devcontainer")

\* the errors of descriptor resolution and parsing
DescriptorErrors ==
    {"devcontainer not found", "json error", "image field missing in devcontainer"}

\* the build commands of run r
BuildSpawns(r) ==
    {i \in DevcontainerSpawns(r) : log[i].argv[2] = Lit("build")}

\* C15: the first step of open that fails makes open return an error at
\* once: nothing is spawned or written after it.  A failed build is followed
\* by no create operation and by no second build, and a failure to resolve
\* or parse the descriptor by no command to the container tool.
C15_FirstFailureAborts ==
    \A p \in Procs :
        inv[p].cmd = "open" =>
            /\ \A i \in DOMAIN log :
                   (log[i].run = inv[p].run /\ FatalStep(log[i]) /\ log[i].status # "ok") =>
                       /\ i + 1 = Len(log)
                       /\ log[i + 1].kind = "exit" /\ log[i + 1].run = inv[p].run
                       /\ log[i + 1].status # "ok"
                       /\ inv[p].pc = "done" /\ inv[p].result = log[i + 1].status
            /\ Cardinality(BuildSpawns(inv[p].run)) <= 1
            /\ \A i \in BuildSpawns(inv[p].run) :
                   log[i].status # "ok" =>
                       /\ inv[p].result = IF log[i].status = "fail"
                                          THEN "devcontainer build failed"
                                          ELSE NotFoundMsg
                       /\ \A j \in UpSpawns : log[j].run # inv[p].run
            /\ inv[p].result \in DescriptorErrors => DevcontainerSpawns(inv[p].run) = {}

\* open returned the build failure, and its last command was the build
C15_Witness ==
    /\ inv[1].cmd = "open" /\ inv[1].pc = "done"
    /\ inv[1].result = "devcontainer build failed"
    /\ \E i \in BuildSpawns(inv[1].run) : log[i].status = "fail" /\ i + 1 = Len(log)
    /\ \E i \in BranchCreations(inv[1].name) : log[i].run = inv[1].run

\* the descriptor open resolved, as parsed
ResolvedDescriptor(p) == files[inv[p].devcontainer_path]

\* C16: open issues the build only for a resolved descriptor with a build
\* object and no image field; a descriptor with an image field never triggers
\* a build, also when it has a build object too.  A build that is issued comes
\* before the create operation.
C16_BuildOnlyForBuildVariant ==
    \A p \in Procs :
        inv[p].cmd = "open" =>
            \A i \in BuildSpawns(inv[p].run) :
                /\ Resolved(p)
                /\ ResolvedDescriptor(p).build # "none"
                /\ ResolvedDescriptor(p).image = "none"
                /\ \A j \in UpSpawns : log[j].run = inv[p].run => i < j

\* the gh repo create commands of run r
GhSpawns(r) ==
    {i \in DOMAIN log :
        /\ log[i].kind = "spawn" /\ log[i].run = r
        /\ log[i].argv[1] = Lit("gh")}

\* run r found a repository: its first git rev-parse succeeded
RepoFound(r) ==
    \E i \in DOMAIN log :
        /\ log[i].kind = "spawn" /\ log[i].run = r
        /\ log[i].argv[2] = Lit("rev-parse") /\ log[i].status = "ok"

\* a remote named origin was configured before run r: it is now, and not
\* because run r provisioned it
OriginBefore(r) ==
    origin /\ \A i \in GhSpawns(r) : log[i].status # "ok"

\* the branch step of run r did not fail
BranchStepOk(r) ==
    \A i \in DOMAIN log :
        (log[i].kind = "spawn" /\ log[i].run = r /\ log[i].argv[1] = Lit("git")
            /\ log[i].argv[2] = Lit("branch")) => log[i].status = "ok"

\* ensure_git_setup of invocation p is over
EnsureOver(p) ==
    /\ inv[p].cmd = "open"
    /\ inv[p].pc \notin {"git_root", "show_ref", "git_branch", "remote", "gh_create"}

\* the command line of the provisioning
GhArgv ==
    <<Lit("gh"), Lit("repo"), Lit("create"), <<"org", "/", "proj">>, Lit("--source"),
      <<"/", "src", "/", "proj">>, Lit("--remote"), Lit("origin"), Lit("--push")>>

\* without githuborg the provisioning is skipped and is no error
SkippedWithoutOrg(p) ==
    configFile # "org" =>
        /\ GhSpawns(inv[p].run) = {}
        /\ inv[p].result # "gh repo create failed"
        /\ (RepoFound(inv[p].run) /\ BranchStepOk(inv[p].run)) =>
               ~(inv[p].pc = "done" /\ inv[p].podman_name = <<>>)

\* C17 as stated: gh repo create <org>/<repo name> --source <root> --remote
\* origin --push is issued exactly when a repository was found, no remote
\* origin is configured and githuborg is configured; without githuborg the
\* step is skipped and open continues without error.
C17_GhCreateExactlyWhen ==
    \A p \in Procs :
        EnsureOver(p) =>
            /\ GhSpawns(inv[p].run) # {} <=>
                   (/\ RepoFound(inv[p].run)
                    /\ ~OriginBefore(inv[p].run)
                    /\ configFile = "org")
            /\ \A i \in GhSpawns(inv[p].run) : log[i].argv = GhArgv
            /\ SkippedWithoutOrg(p)

\* C17 amended: the command is issued exactly when a repository was found,
\* the branch step did not fail, no remote origin is configured and githuborg
\* is configured; it is issued once; without githuborg the step is skipped
\* and open continues without error.
C17_GhCreateExactlyWhenReached ==
    \A p \in Procs :
        EnsureOver(p) =>
            /\ GhSpawns(inv[p].run) # {} <=>
                   (/\ RepoFound(inv[p].run)
                    /\ BranchStepOk(inv[p].run)
                    /\ ~OriginBefore(inv[p].run)
                    /\ configFile = "org")
            /\ Cardinality(GhSpawns(inv[p].run)) <= 1
            /\ \A i \in GhSpawns(inv[p].run) : log[i].argv = GhArgv
            /\ SkippedWithoutOrg(p)

\* open provisioned the remote in a repository without origin, with
\* githuborg configured, and went on
C17_Witness ==
    /\ EnsureOver(1) /\ inv[1].podman_name # <<>>
    /\ configFile = "org" /\ origin
    /\ \E i \in GhSpawns(inv[1].run) : log[i].status = "ok"

\* open has read and parsed the descriptor it resolved
Parsed(p) == Resolved(p) /\ inv[p].pc # "parse"

\* C18: when the resolved descriptor has neither an image field nor a build
\* object, open fails with the image-field-missing error and gives the
\* container tool no command: no build, no up, no exec.
C18_NeitherFieldFails ==
    \A p \in Procs :
        (/\ Parsed(p)
         /\ ResolvedDescriptor(p).json
         /\ ResolvedDescriptor(p).image = "none"
         /\ ResolvedDescriptor(p).build = "none") =>
            /\ inv[p].pc = "done"
            /\ inv[p].result = "image field missing in devcontainer"
            /\ DevcontainerSpawns(inv[p].run) = {}

\* open failed on .devcontainer/devcontainer.json holding an object with
\* neither field
C18_Witness ==
    /\ Parsed(1) /\ inv[1].pc = "done"
    /\ inv[1].devcontainer_path = DefaultDescriptor
    /\ files[DefaultDescriptor] = EmptyObjectContent
    /\ inv[1].result = "image field missing in devcontainer"

\* C19: a descriptor with a build object and no image is a Build only if the
\* build object has a dockerfile string; with one, the build is issued for
\* it; without one, resolution fails and no build command is issued.
C19_BuildNeedsDockerfile ==
    \A p \in Procs :
        (/\ Parsed(p)
         /\ ResolvedDescriptor(p).json
         /\ ResolvedDescriptor(p).image = "none"
         /\ ResolvedDescriptor(p).build # "none") =>
            IF ResolvedDescriptor(p).build = "dockerfile"
            THEN inv[p].pc = "build" \/ BuildSpawns(inv[p].run) # {}
            ELSE /\ inv[p].pc = "done"
                 /\ inv[p].result # "ok"
                 /\ BuildSpawns(inv[p].run) = {}

\* the descriptor writes and directory creations of run r
ResolutionWrites(r) ==
    {i \in DescriptorWrites \cup DevcontainerDirCreations : log[i].run = r}

\* C20: resolution takes .devcontainer/<name>/devcontainer.json and nothing
\* else when an environment name is given; otherwise .devcontainer.json if it
\* exists; otherwise .devcontainer/devcontainer.json if it exists; it
\* scaffolds only when none of these exists, and writes nothing whenever one
\* does.
C20_ResolutionPriority ==
    \A p \in Procs :
        inv[p].cmd = "open" =>
            /\ Resolved(p) =>
                   /\ inv[p].devcontainer_path \in DOMAIN files
                   /\ inv[p].devcontainer_path =
                          IF inv[p].dev_env # None
                          THEN <<".devcontainer", "/">> \o inv[p].dev_env[1]
                                   \o <<"/", "devcontainer.json">>
                          ELSE IF <<".devcontainer.json">> \in DOMAIN files
                          THEN <<".devcontainer.json">>
                          ELSE <<".devcontainer", "/", "devcontainer.json">>
            /\ ResolutionWrites(inv[p].run) # {} =>
                   /\ inv[p].dev_env = None
                   /\ <<".devcontainer.json">> \notin DOMAIN files
                   /\ files[<<".devcontainer", "/", "devcontainer.json">>] = ScaffoldContent
                   /\ \A i \in DescriptorWrites : log[i].run = inv[p].run
            /\ (inv[p].dev_env = None
                    /\ OwnDescriptors \cap {RootDescriptor, DefaultDescriptor} # {}) =>
                   DescriptorWrites \cup DevcontainerDirCreations = {}

\* open resolved .devcontainer.json while .devcontainer/devcontainer.json
\* and an environment descriptor existed too, and wrote nothing
C20_Witness ==
    /\ Resolved(1) /\ inv[1].dev_env = None
    /\ inv[1].devcontainer_path = RootDescriptor
    /\ {RootDescriptor, DefaultDescriptor, EnvDescriptor(<<"x">>)} \subseteq DOMAIN files
    /\ DescriptorWrites = {}

\* the spawns and filesystem calls of run r
EventsOfRun(r) ==
    {i \in DOMAIN log : log[i].run = r /\ log[i].kind \in {"spawn", "fs"}}

\* what kill and ls have put in the log: kill at most the one teardown under
\* the sanitized name, exactly one once it is past the sanitizer; ls the one
\* list command
KillLsCommands ==
    \A p \in Procs :
        /\ inv[p].cmd = "kill" =>
               /\ \A i \in EventsOfRun(inv[p].run) :
                      log[i].argv = <<Lit("devcontainer"), Lit("down"), Lit("--id-label"),
                                      <<"name=">> \o sanitize_podman_name(inv[p].name)>>
               /\ Cardinality(EventsOfRun(inv[p].run)) =
                      IF inv[p].pc = "done" /\ inv[p].result # "invalid session name"
                      THEN 1 ELSE 0
        /\ inv[p].cmd = "ls" =>
               /\ \A i \in EventsOfRun(inv[p].run) :
                      log[i].argv = <<Lit("devcontainer"), Lit("list")>>
               /\ Cardinality(EventsOfRun(inv[p].run)) =
                      IF inv[p].pc = "done" THEN 1 ELSE 0

\* a step of kill or ls changes no branch, remote, directory, linkage or
\* descriptor; ls changes no environment, and kill none but the one under
\* the sanitized name
KillLsFrame ==
    \A p \in Procs :
        inv[p].pc \in {"kill_sanitize", "down", "list"} =>
            /\ UNCHANGED <<branches, head, origin, dirs, linked, files, inRepo,
                           configFile, installed>>
            /\ inv[p].pc # "down" => containers' = containers
            /\ inv[p].pc = "down" =>
                   /\ containers' \subseteq containers
                   /\ containers \ containers' \subseteq
                          {sanitize_podman_name(inv[p].name)}

\* C21: kill and ls leave the git side and the descriptors as they are: no
\* branch, remote, worktree directory or scaffolded descriptor is made; kill
\* issues exactly one teardown, under sanitize(name), and ls exactly one list
\* command, which changes no session.
C21_KillAndLsTouchNothingElse ==
    [](KillLsCommands) /\ [][KillLsFrame]_vars

\* kill f/c tore down the environment open f/c had brought up, and the
\* branch, the directory and the linkage of the session are still there
C21_Witness ==
    /\ inv[1].cmd = "kill" /\ inv[1].pc = "done" /\ inv[1].result = "ok"
    /\ inv[1].name = <<"f", "/", "c">>
    /\ \E i \in UpSpawns : log[i].status = "ok" /\ log[i].argv[6] = <<"name=", "f", "-", "c">>
    /\ <<"f", "-", "c">> \notin containers
    /\ <<"f", "/", "c">> \in DOMAIN branches
    /\ WorktreePath(<<"proj">>, <<"f", "/", "c">>) \in DOMAIN linked

\* the git branch <n> commands in the log, in the order they ran
BranchAttempts(n) ==
    {i \in DOMAIN log :
        log[i].kind = "spawn" /\ log[i].argv = <<Lit("git"), Lit("branch"), n>>}

\* the invocation that made log entry i
ProcOfEntry(i) == CHOOSE p \in Procs : inv[p].run = log[i].run

\* C22: two concurrent opens of one name, the branch absent.  In every
\* interleaving at most one git branch succeeds and the name has one branch,
\* made once, when one did; an attempt that comes after the successful one
\* fails, and the invocation whose attempt failed has returned the git branch
\* error and has gone no further: the duplicate is not passed over in
\* silence.  (That both can see the branch absent and both attempt is the
\* state C22_Witness describes.)
C22_RaceLoserFails ==
    /\ Cardinality(BranchCreations(<<"x">>)) <= 1
    /\ BranchCreations(<<"x">>) # {} <=> <<"x">> \in DOMAIN branches
    /\ \A i \in BranchAttempts(<<"x">>) :
          /\ BranchWasAbsent(log[i].run)
          /\ (\E j \in BranchCreations(<<"x">>) : j < i) => log[i].status = "fail"
          /\ log[i].status = "fail" =>
                 /\ inv[ProcOfEntry(i)].pc = "done"
                 /\ inv[ProcOfEntry(i)].result = "git branch failed"
                 /\ log[i + 1] = Exit(log[i].run, "git branch failed")
                 /\ \A j \in DOMAIN log : (j > i + 1) => log[j].run # log[i].run

\* both invocations saw the branch absent and both ran git branch: the first
\* made it, the second failed and returned the error, and one branch x exists
C22_Witness ==
    /\ BranchWasAbsent(1) /\ BranchWasAbsent(2)
    /\ \E i, j \in BranchAttempts(<<"x">>) :
          /\ i < j /\ log[i].run # log[j].run
          /\ log[i].status = "ok" /\ log[j].status = "fail"
          /\ inv[ProcOfEntry(j)].result = "git branch failed"
          /\ inv[ProcOfEntry(i)].result # "git branch failed"
    /\ <<"x">> \in DOMAIN branches

\* the exec commands of run r, by what they run
ExecSpawns(r) ==
    {i \in DevcontainerSpawns(r) : log[i].argv[2] = Lit("exec")}

Registrations(r) ==
    {i \in ExecSpawns(r) :
        Head(log[i].argv[Len(log[i].argv)]) = "git -C /repo worktree add -B "}

Attaches(r) ==
    {i \in ExecSpawns(r) : log[i].argv[Len(log[i].argv)] = Lit("cd /code && exec bash")}

\* the worktree path held linkage before run r got to it: an earlier run
\* registered it
LinkedBefore(r, path) ==
    \E q \in 1..(r - 1) : \E i \in Registrations(q) :
        log[i].status = "ok" /\ log[i].argv[4] = path

\* the create operation of the invocation succeeded and its registration
\* step is over
PastRegistration(p) ==
    /\ inv[p].cmd = "open" /\ inv[p].pc \in {"attach", "done"}
    /\ \E i \in UpSpawns : log[i].run = inv[p].run /\ log[i].status = "ok"

\* C23: open issues the worktree registration only after its create
\* operation succeeded and before the interactive attach, and exactly when
\* the worktree path holds no linkage into the repository's worktree
\* registry; with the linkage present, as on a repeated open, it issues none.
C23_RegistrationOnlyWhenUnlinked ==
    \A p \in Procs :
        inv[p].cmd = "open" =>
            /\ Cardinality(Registrations(inv[p].run)) <= 1
            /\ \A i \in Registrations(inv[p].run) :
                   /\ \E j \in UpSpawns :
                          log[j].run = inv[p].run /\ log[j].status = "ok" /\ j < i
                   /\ \A j \in Attaches(inv[p].run) : i < j
                   /\ log[i].argv[Len(log[i].argv)] =
                          <<"git -C /repo worktree add -B ">> \o inv[p].name \o <<" /code">>
            /\ Attaches(inv[p].run) # {} => PastRegistration(p)
            /\ PastRegistration(p) =>
                   (Registrations(inv[p].run) # {}
                       <=> ~LinkedBefore(inv[p].run, inv[p].worktree_path))

\* the second open of x found the linkage the first one made, and went to
\* the attach without registering
C23_Witness ==
    /\ inv[1].cmd = "open" /\ inv[1].run = 2 /\ inv[1].name = <<"x">>
    /\ Attaches(2) # {} /\ Registrations(2) = {}
    /\ \E i \in Registrations(1) : log[i].status = "ok"
    /\ inv[1].worktree_path \in DOMAIN linked

\* the label a create or teardown command carries
LabelOf(e) ==
    IF e.argv[2] = Lit("up") THEN e.argv[6] ELSE e.argv[4]

\* the create and teardown commands in the log
LabelledSpawns ==
    {i \in DOMAIN log :
        /\ log[i].kind = "spawn" /\ log[i].argv[1] = Lit("devcontainer")
        /\ log[i].argv[2] \in {Lit("up"), Lit("down")}}

\* C24: distinct raw names have distinct labels: two create or teardown
\* commands under one label were given for one raw name, so kill A never
\* tears down what open B brought up and open A never reuses it.
C24_DistinctNamesDistinctLabels ==
    \A i, j \in LabelledSpawns :
        LabelOf(log[i]) = LabelOf(log[j]) => NameOfRun(log[i].run) = NameOfRun(log[j].run)

\* C25: open never moves a branch that exists: a step of open leaves every
\* existing branch on the commit it was on, whether the step succeeds or
\* fails and whether or not the worktree directory had linkage.
C25_OpenKeepsExistingBranch ==
    [][\A p \in Procs :
          (inv[p].cmd = "open" /\ inv[p].pc \notin {"idle", "done"}) =>
              \A n \in DOMAIN branches :
                  n \in DOMAIN branches' /\ branches'[n] = branches[n]]_vars

====
